---- MODULE Spec2Model ----
(***************************************************************************)
(* Model of sample_solution/isomer_data.py (class IsomerData): the         *)
(* identifier codec (nuclear data <-> isomer name <-> ENDF filename) and   *)
(* the constructor that parses a decay-data file.                          *)
(*                                                                         *)
(* A Python str is modelled as the sequence of its characters, so that     *)
(* slicing, splitting, zero-padding, int(), float() and str() are computed *)
(* character by character, as the interpreter does.                        *)
(***************************************************************************)
EXTENDS Integers, Sequences, FiniteSets, TLC

VARIABLES
    nd_in,         \* the (atomic_number, atomic_mass, energy_state) a caller starts from
    name_v,        \* the isomer name the caller holds: result of isomer_name_from_nuclear_data
    fname_v,       \* the filename the caller holds: result of filename_from_nuclear_data
    call,          \* the last codec call: operation, where its argument came from, argument, result
    file_content,  \* what open(filepath) finds: the file's lines, or no file
    obj,           \* the IsomerData instance bound by the caller (its __dict__), if any
    raised,        \* the exception the last construction raised, if any
    locals,        \* __init__'s local variables when it returned or raised
    out            \* the last accessor call on obj and its result

vars == <<nd_in, name_v, fname_v, call, file_content, obj, raised, locals, out>>

(***************************************************************************)
(* Bounds of the model.                                                    *)
(***************************************************************************)
MaxMass == 104
MaxEnergyState == 3
MaxNameLen == 4

(***************************************************************************)
(* Python values: results and exceptions.                                  *)
(***************************************************************************)
NoVal == <<>>

Ok(v) == [ok |-> TRUE, val |-> v, exc |-> "", text |-> "", arg |-> <<>>]

Err(e, t, a) == [ok |-> FALSE, val |-> NoVal, exc |-> e, text |-> t, arg |-> a]

NoError == [exc |-> "", text |-> "", arg |-> <<>>]

ErrorOf(r) == [exc |-> r.exc, text |-> r.text, arg |-> r.arg]

(***************************************************************************)
(* Characters.  An ASCII character is the one-character string it is; a    *)
(* character outside ASCII is written by its code point, as in "U+0666".   *)
(* The classes below are those of the Unicode database CPython 3.11 ships  *)
(* (Unicode 14.0).                                                         *)
(***************************************************************************)
\* the digits str(n) and format() write
Digits == <<"0", "1", "2", "3", "4", "5", "6", "7", "8", "9">>

\* the decimal digits of the other scripts, each row from zero to nine
OtherScriptDigits ==
    { <<"U+0660", "U+0661", "U+0662", "U+0663", "U+0664", "U+0665", "U+0666", "U+0667", "U+0668", "U+0669">>,
      <<"U+06F0", "U+06F1", "U+06F2", "U+06F3", "U+06F4", "U+06F5", "U+06F6", "U+06F7", "U+06F8", "U+06F9">>,
      <<"U+07C0", "U+07C1", "U+07C2", "U+07C3", "U+07C4", "U+07C5", "U+07C6", "U+07C7", "U+07C8", "U+07C9">>,
      <<"U+0966", "U+0967", "U+0968", "U+0969", "U+096A", "U+096B", "U+096C", "U+096D", "U+096E", "U+096F">>,
      <<"U+09E6", "U+09E7", "U+09E8", "U+09E9", "U+09EA", "U+09EB", "U+09EC", "U+09ED", "U+09EE", "U+09EF">>,
      <<"U+0A66", "U+0A67", "U+0A68", "U+0A69", "U+0A6A", "U+0A6B", "U+0A6C", "U+0A6D", "U+0A6E", "U+0A6F">>,
      <<"U+0AE6", "U+0AE7", "U+0AE8", "U+0AE9", "U+0AEA", "U+0AEB", "U+0AEC", "U+0AED", "U+0AEE", "U+0AEF">>,
      <<"U+0B66", "U+0B67", "U+0B68", "U+0B69", "U+0B6A", "U+0B6B", "U+0B6C", "U+0B6D", "U+0B6E", "U+0B6F">>,
      <<"U+0BE6", "U+0BE7", "U+0BE8", "U+0BE9", "U+0BEA", "U+0BEB", "U+0BEC", "U+0BED", "U+0BEE", "U+0BEF">>,
      <<"U+0C66", "U+0C67", "U+0C68", "U+0C69", "U+0C6A", "U+0C6B", "U+0C6C", "U+0C6D", "U+0C6E", "U+0C6F">>,
      <<"U+0CE6", "U+0CE7", "U+0CE8", "U+0CE9", "U+0CEA", "U+0CEB", "U+0CEC", "U+0CED", "U+0CEE", "U+0CEF">>,
      <<"U+0D66", "U+0D67", "U+0D68", "U+0D69", "U+0D6A", "U+0D6B", "U+0D6C", "U+0D6D", "U+0D6E", "U+0D6F">>,
      <<"U+0DE6", "U+0DE7", "U+0DE8", "U+0DE9", "U+0DEA", "U+0DEB", "U+0DEC", "U+0DED", "U+0DEE", "U+0DEF">>,
      <<"U+0E50", "U+0E51", "U+0E52", "U+0E53", "U+0E54", "U+0E55", "U+0E56", "U+0E57", "U+0E58", "U+0E59">>,
      <<"U+0ED0", "U+0ED1", "U+0ED2", "U+0ED3", "U+0ED4", "U+0ED5", "U+0ED6", "U+0ED7", "U+0ED8", "U+0ED9">>,
      <<"U+0F20", "U+0F21", "U+0F22", "U+0F23", "U+0F24", "U+0F25", "U+0F26", "U+0F27", "U+0F28", "U+0F29">>,
      <<"U+1040", "U+1041", "U+1042", "U+1043", "U+1044", "U+1045", "U+1046", "U+1047", "U+1048", "U+1049">>,
      <<"U+1090", "U+1091", "U+1092", "U+1093", "U+1094", "U+1095", "U+1096", "U+1097", "U+1098", "U+1099">>,
      <<"U+17E0", "U+17E1", "U+17E2", "U+17E3", "U+17E4", "U+17E5", "U+17E6", "U+17E7", "U+17E8", "U+17E9">>,
      <<"U+1810", "U+1811", "U+1812", "U+1813", "U+1814", "U+1815", "U+1816", "U+1817", "U+1818", "U+1819">>,
      <<"U+1946", "U+1947", "U+1948", "U+1949", "U+194A", "U+194B", "U+194C", "U+194D", "U+194E", "U+194F">>,
      <<"U+19D0", "U+19D1", "U+19D2", "U+19D3", "U+19D4", "U+19D5", "U+19D6", "U+19D7", "U+19D8", "U+19D9">>,
      <<"U+1A80", "U+1A81", "U+1A82", "U+1A83", "U+1A84", "U+1A85", "U+1A86", "U+1A87", "U+1A88", "U+1A89">>,
      <<"U+1A90", "U+1A91", "U+1A92", "U+1A93", "U+1A94", "U+1A95", "U+1A96", "U+1A97", "U+1A98", "U+1A99">>,
      <<"U+1B50", "U+1B51", "U+1B52", "U+1B53", "U+1B54", "U+1B55", "U+1B56", "U+1B57", "U+1B58", "U+1B59">>,
      <<"U+1BB0", "U+1BB1", "U+1BB2", "U+1BB3", "U+1BB4", "U+1BB5", "U+1BB6", "U+1BB7", "U+1BB8", "U+1BB9">>,
      <<"U+1C40", "U+1C41", "U+1C42", "U+1C43", "U+1C44", "U+1C45", "U+1C46", "U+1C47", "U+1C48", "U+1C49">>,
      <<"U+1C50", "U+1C51", "U+1C52", "U+1C53", "U+1C54", "U+1C55", "U+1C56", "U+1C57", "U+1C58", "U+1C59">>,
      <<"U+A620", "U+A621", "U+A622", "U+A623", "U+A624", "U+A625", "U+A626", "U+A627", "U+A628", "U+A629">>,
      <<"U+A8D0", "U+A8D1", "U+A8D2", "U+A8D3", "U+A8D4", "U+A8D5", "U+A8D6", "U+A8D7", "U+A8D8", "U+A8D9">>,
      <<"U+A900", "U+A901", "U+A902", "U+A903", "U+A904", "U+A905", "U+A906", "U+A907", "U+A908", "U+A909">>,
      <<"U+A9D0", "U+A9D1", "U+A9D2", "U+A9D3", "U+A9D4", "U+A9D5", "U+A9D6", "U+A9D7", "U+A9D8", "U+A9D9">>,
      <<"U+A9F0", "U+A9F1", "U+A9F2", "U+A9F3", "U+A9F4", "U+A9F5", "U+A9F6", "U+A9F7", "U+A9F8", "U+A9F9">>,
      <<"U+AA50", "U+AA51", "U+AA52", "U+AA53", "U+AA54", "U+AA55", "U+AA56", "U+AA57", "U+AA58", "U+AA59">>,
      <<"U+ABF0", "U+ABF1", "U+ABF2", "U+ABF3", "U+ABF4", "U+ABF5", "U+ABF6", "U+ABF7", "U+ABF8", "U+ABF9">>,
      <<"U+FF10", "U+FF11", "U+FF12", "U+FF13", "U+FF14", "U+FF15", "U+FF16", "U+FF17", "U+FF18", "U+FF19">>,
      <<"U+104A0", "U+104A1", "U+104A2", "U+104A3", "U+104A4", "U+104A5", "U+104A6", "U+104A7", "U+104A8", "U+104A9">>,
      <<"U+10D30", "U+10D31", "U+10D32", "U+10D33", "U+10D34", "U+10D35", "U+10D36", "U+10D37", "U+10D38", "U+10D39">>,
      <<"U+11066", "U+11067", "U+11068", "U+11069", "U+1106A", "U+1106B", "U+1106C", "U+1106D", "U+1106E", "U+1106F">>,
      <<"U+110F0", "U+110F1", "U+110F2", "U+110F3", "U+110F4", "U+110F5", "U+110F6", "U+110F7", "U+110F8", "U+110F9">>,
      <<"U+11136", "U+11137", "U+11138", "U+11139", "U+1113A", "U+1113B", "U+1113C", "U+1113D", "U+1113E", "U+1113F">>,
      <<"U+111D0", "U+111D1", "U+111D2", "U+111D3", "U+111D4", "U+111D5", "U+111D6", "U+111D7", "U+111D8", "U+111D9">>,
      <<"U+112F0", "U+112F1", "U+112F2", "U+112F3", "U+112F4", "U+112F5", "U+112F6", "U+112F7", "U+112F8", "U+112F9">>,
      <<"U+11450", "U+11451", "U+11452", "U+11453", "U+11454", "U+11455", "U+11456", "U+11457", "U+11458", "U+11459">>,
      <<"U+114D0", "U+114D1", "U+114D2", "U+114D3", "U+114D4", "U+114D5", "U+114D6", "U+114D7", "U+114D8", "U+114D9">>,
      <<"U+11650", "U+11651", "U+11652", "U+11653", "U+11654", "U+11655", "U+11656", "U+11657", "U+11658", "U+11659">>,
      <<"U+116C0", "U+116C1", "U+116C2", "U+116C3", "U+116C4", "U+116C5", "U+116C6", "U+116C7", "U+116C8", "U+116C9">>,
      <<"U+11730", "U+11731", "U+11732", "U+11733", "U+11734", "U+11735", "U+11736", "U+11737", "U+11738", "U+11739">>,
      <<"U+118E0", "U+118E1", "U+118E2", "U+118E3", "U+118E4", "U+118E5", "U+118E6", "U+118E7", "U+118E8", "U+118E9">>,
      <<"U+11950", "U+11951", "U+11952", "U+11953", "U+11954", "U+11955", "U+11956", "U+11957", "U+11958", "U+11959">>,
      <<"U+11C50", "U+11C51", "U+11C52", "U+11C53", "U+11C54", "U+11C55", "U+11C56", "U+11C57", "U+11C58", "U+11C59">>,
      <<"U+11D50", "U+11D51", "U+11D52", "U+11D53", "U+11D54", "U+11D55", "U+11D56", "U+11D57", "U+11D58", "U+11D59">>,
      <<"U+11DA0", "U+11DA1", "U+11DA2", "U+11DA3", "U+11DA4", "U+11DA5", "U+11DA6", "U+11DA7", "U+11DA8", "U+11DA9">>,
      <<"U+16A60", "U+16A61", "U+16A62", "U+16A63", "U+16A64", "U+16A65", "U+16A66", "U+16A67", "U+16A68", "U+16A69">>,
      <<"U+16AC0", "U+16AC1", "U+16AC2", "U+16AC3", "U+16AC4", "U+16AC5", "U+16AC6", "U+16AC7", "U+16AC8", "U+16AC9">>,
      <<"U+16B50", "U+16B51", "U+16B52", "U+16B53", "U+16B54", "U+16B55", "U+16B56", "U+16B57", "U+16B58", "U+16B59">>,
      <<"U+1D7CE", "U+1D7CF", "U+1D7D0", "U+1D7D1", "U+1D7D2", "U+1D7D3", "U+1D7D4", "U+1D7D5", "U+1D7D6", "U+1D7D7">>,
      <<"U+1D7D8", "U+1D7D9", "U+1D7DA", "U+1D7DB", "U+1D7DC", "U+1D7DD", "U+1D7DE", "U+1D7DF", "U+1D7E0", "U+1D7E1">>,
      <<"U+1D7E2", "U+1D7E3", "U+1D7E4", "U+1D7E5", "U+1D7E6", "U+1D7E7", "U+1D7E8", "U+1D7E9", "U+1D7EA", "U+1D7EB">>,
      <<"U+1D7EC", "U+1D7ED", "U+1D7EE", "U+1D7EF", "U+1D7F0", "U+1D7F1", "U+1D7F2", "U+1D7F3", "U+1D7F4", "U+1D7F5">>,
      <<"U+1D7F6", "U+1D7F7", "U+1D7F8", "U+1D7F9", "U+1D7FA", "U+1D7FB", "U+1D7FC", "U+1D7FD", "U+1D7FE", "U+1D7FF">>,
      <<"U+1E140", "U+1E141", "U+1E142", "U+1E143", "U+1E144", "U+1E145", "U+1E146", "U+1E147", "U+1E148", "U+1E149">>,
      <<"U+1E2F0", "U+1E2F1", "U+1E2F2", "U+1E2F3", "U+1E2F4", "U+1E2F5", "U+1E2F6", "U+1E2F7", "U+1E2F8", "U+1E2F9">>,
      <<"U+1E950", "U+1E951", "U+1E952", "U+1E953", "U+1E954", "U+1E955", "U+1E956", "U+1E957", "U+1E958", "U+1E959">>,
      <<"U+1FBF0", "U+1FBF1", "U+1FBF2", "U+1FBF3", "U+1FBF4", "U+1FBF5", "U+1FBF6", "U+1FBF7", "U+1FBF8", "U+1FBF9">> }

\* c.isdecimal(): the characters int() and float() read as digits
DecimalChars == UNION {{row[i] : i \in 1..Len(row)} : row \in {Digits} \cup OtherScriptDigits}

\* the characters with c.isnumeric() that are no decimal digits: superscripts,
\* fractions, letter and ideographic numerals
OtherNumerics ==
    { "U+00B2", "U+00B3", "U+00B9", "U+00BC", "U+00BD", "U+00BE", "U+09F4",
      "U+09F5", "U+09F6", "U+09F7", "U+09F8", "U+09F9", "U+0B72", "U+0B73",
      "U+0B74", "U+0B75", "U+0B76", "U+0B77", "U+0BF0", "U+0BF1", "U+0BF2",
      "U+0C78", "U+0C79", "U+0C7A", "U+0C7B", "U+0C7C", "U+0C7D", "U+0C7E",
      "U+0D58", "U+0D59", "U+0D5A", "U+0D5B", "U+0D5C", "U+0D5D", "U+0D5E",
      "U+0D70", "U+0D71", "U+0D72", "U+0D73", "U+0D74", "U+0D75", "U+0D76",
      "U+0D77", "U+0D78", "U+0F2A", "U+0F2B", "U+0F2C", "U+0F2D", "U+0F2E",
      "U+0F2F", "U+0F30", "U+0F31", "U+0F32", "U+0F33", "U+1369", "U+136A",
      "U+136B", "U+136C", "U+136D", "U+136E", "U+136F", "U+1370", "U+1371",
      "U+1372", "U+1373", "U+1374", "U+1375", "U+1376", "U+1377", "U+1378",
      "U+1379", "U+137A", "U+137B", "U+137C", "U+16EE", "U+16EF", "U+16F0",
      "U+17F0", "U+17F1", "U+17F2", "U+17F3", "U+17F4", "U+17F5", "U+17F6",
      "U+17F7", "U+17F8", "U+17F9", "U+19DA", "U+2070", "U+2074", "U+2075",
      "U+2076", "U+2077", "U+2078", "U+2079", "U+2080", "U+2081", "U+2082",
      "U+2083", "U+2084", "U+2085", "U+2086", "U+2087", "U+2088", "U+2089",
      "U+2150", "U+2151", "U+2152", "U+2153", "U+2154", "U+2155", "U+2156",
      "U+2157", "U+2158", "U+2159", "U+215A", "U+215B", "U+215C", "U+215D",
      "U+215E", "U+215F", "U+2160", "U+2161", "U+2162", "U+2163", "U+2164",
      "U+2165", "U+2166", "U+2167", "U+2168", "U+2169", "U+216A", "U+216B",
      "U+216C", "U+216D", "U+216E", "U+216F", "U+2170", "U+2171", "U+2172",
      "U+2173", "U+2174", "U+2175", "U+2176", "U+2177", "U+2178", "U+2179",
      "U+217A", "U+217B", "U+217C", "U+217D", "U+217E", "U+217F", "U+2180",
      "U+2181", "U+2182", "U+2185", "U+2186", "U+2187", "U+2188", "U+2189",
      "U+2460", "U+2461", "U+2462", "U+2463", "U+2464", "U+2465", "U+2466",
      "U+2467", "U+2468", "U+2469", "U+246A", "U+246B", "U+246C", "U+246D",
      "U+246E", "U+246F", "U+2470", "U+2471", "U+2472", "U+2473", "U+2474",
      "U+2475", "U+2476", "U+2477", "U+2478", "U+2479", "U+247A", "U+247B",
      "U+247C", "U+247D", "U+247E", "U+247F", "U+2480", "U+2481", "U+2482",
      "U+2483", "U+2484", "U+2485", "U+2486", "U+2487", "U+2488", "U+2489",
      "U+248A", "U+248B", "U+248C", "U+248D", "U+248E", "U+248F", "U+2490",
      "U+2491", "U+2492", "U+2493", "U+2494", "U+2495", "U+2496", "U+2497",
      "U+2498", "U+2499", "U+249A", "U+249B", "U+24EA", "U+24EB", "U+24EC",
      "U+24ED", "U+24EE", "U+24EF", "U+24F0", "U+24F1", "U+24F2", "U+24F3",
      "U+24F4", "U+24F5", "U+24F6", "U+24F7", "U+24F8", "U+24F9", "U+24FA",
      "U+24FB", "U+24FC", "U+24FD", "U+24FE", "U+24FF", "U+2776", "U+2777",
      "U+2778", "U+2779", "U+277A", "U+277B", "U+277C", "U+277D", "U+277E",
      "U+277F", "U+2780", "U+2781", "U+2782", "U+2783", "U+2784", "U+2785",
      "U+2786", "U+2787", "U+2788", "U+2789", "U+278A", "U+278B", "U+278C",
      "U+278D", "U+278E", "U+278F", "U+2790", "U+2791", "U+2792", "U+2793",
      "U+2CFD", "U+3007", "U+3021", "U+3022", "U+3023", "U+3024", "U+3025",
      "U+3026", "U+3027", "U+3028", "U+3029", "U+3038", "U+3039", "U+303A",
      "U+3192", "U+3193", "U+3194", "U+3195", "U+3220", "U+3221", "U+3222",
      "U+3223", "U+3224", "U+3225", "U+3226", "U+3227", "U+3228", "U+3229",
      "U+3248", "U+3249", "U+324A", "U+324B", "U+324C", "U+324D", "U+324E",
      "U+324F", "U+3251", "U+3252", "U+3253", "U+3254", "U+3255", "U+3256",
      "U+3257", "U+3258", "U+3259", "U+325A", "U+325B", "U+325C", "U+325D",
      "U+325E", "U+325F", "U+3280", "U+3281", "U+3282", "U+3283", "U+3284",
      "U+3285", "U+3286", "U+3287", "U+3288", "U+3289", "U+32B1", "U+32B2",
      "U+32B3", "U+32B4", "U+32B5", "U+32B6", "U+32B7", "U+32B8", "U+32B9",
      "U+32BA", "U+32BB", "U+32BC", "U+32BD", "U+32BE", "U+32BF", "U+3405",
      "U+3483", "U+382A", "U+3B4D", "U+4E00", "U+4E03", "U+4E07", "U+4E09",
      "U+4E5D", "U+4E8C", "U+4E94", "U+4E96", "U+4EBF", "U+4EC0", "U+4EDF",
      "U+4EE8", "U+4F0D", "U+4F70", "U+5104", "U+5146", "U+5169", "U+516B",
      "U+516D", "U+5341", "U+5343", "U+5344", "U+5345", "U+534C", "U+53C1",
      "U+53C2", "U+53C3", "U+53C4", "U+56DB", "U+58F1", "U+58F9", "U+5E7A",
      "U+5EFE", "U+5EFF", "U+5F0C", "U+5F0D", "U+5F0E", "U+5F10", "U+62FE",
      "U+634C", "U+67D2", "U+6F06", "U+7396", "U+767E", "U+8086", "U+842C",
      "U+8CAE", "U+8CB3", "U+8D30", "U+9621", "U+9646", "U+964C", "U+9678",
      "U+96F6", "U+A6E6", "U+A6E7", "U+A6E8", "U+A6E9", "U+A6EA", "U+A6EB",
      "U+A6EC", "U+A6ED", "U+A6EE", "U+A6EF", "U+A830", "U+A831", "U+A832",
      "U+A833", "U+A834", "U+A835", "U+F96B", "U+F973", "U+F978", "U+F9B2",
      "U+F9D1", "U+F9D3", "U+F9FD", "U+10107", "U+10108", "U+10109", "U+1010A",
      "U+1010B", "U+1010C", "U+1010D", "U+1010E", "U+1010F", "U+10110",
      "U+10111", "U+10112", "U+10113", "U+10114", "U+10115", "U+10116",
      "U+10117", "U+10118", "U+10119", "U+1011A", "U+1011B", "U+1011C",
      "U+1011D", "U+1011E", "U+1011F", "U+10120", "U+10121", "U+10122",
      "U+10123", "U+10124", "U+10125", "U+10126", "U+10127", "U+10128",
      "U+10129", "U+1012A", "U+1012B", "U+1012C", "U+1012D", "U+1012E",
      "U+1012F", "U+10130", "U+10131", "U+10132", "U+10133", "U+10140",
      "U+10141", "U+10142", "U+10143", "U+10144", "U+10145", "U+10146",
      "U+10147", "U+10148", "U+10149", "U+1014A", "U+1014B", "U+1014C",
      "U+1014D", "U+1014E", "U+1014F", "U+10150", "U+10151", "U+10152",
      "U+10153", "U+10154", "U+10155", "U+10156", "U+10157", "U+10158",
      "U+10159", "U+1015A", "U+1015B", "U+1015C", "U+1015D", "U+1015E",
      "U+1015F", "U+10160", "U+10161", "U+10162", "U+10163", "U+10164",
      "U+10165", "U+10166", "U+10167", "U+10168", "U+10169", "U+1016A",
      "U+1016B", "U+1016C", "U+1016D", "U+1016E", "U+1016F", "U+10170",
      "U+10171", "U+10172", "U+10173", "U+10174", "U+10175", "U+10176",
      "U+10177", "U+10178", "U+1018A", "U+1018B", "U+102E1", "U+102E2",
      "U+102E3", "U+102E4", "U+102E5", "U+102E6", "U+102E7", "U+102E8",
      "U+102E9", "U+102EA", "U+102EB", "U+102EC", "U+102ED", "U+102EE",
      "U+102EF", "U+102F0", "U+102F1", "U+102F2", "U+102F3", "U+102F4",
      "U+102F5", "U+102F6", "U+102F7", "U+102F8", "U+102F9", "U+102FA",
      "U+102FB", "U+10320", "U+10321", "U+10322", "U+10323", "U+10341",
      "U+1034A", "U+103D1", "U+103D2", "U+103D3", "U+103D4", "U+103D5",
      "U+10858", "U+10859", "U+1085A", "U+1085B", "U+1085C", "U+1085D",
      "U+1085E", "U+1085F", "U+10879", "U+1087A", "U+1087B", "U+1087C",
      "U+1087D", "U+1087E", "U+1087F", "U+108A7", "U+108A8", "U+108A9",
      "U+108AA", "U+108AB", "U+108AC", "U+108AD", "U+108AE", "U+108AF",
      "U+108FB", "U+108FC", "U+108FD", "U+108FE", "U+108FF", "U+10916",
      "U+10917", "U+10918", "U+10919", "U+1091A", "U+1091B", "U+109BC",
      "U+109BD", "U+109C0", "U+109C1", "U+109C2", "U+109C3", "U+109C4",
      "U+109C5", "U+109C6", "U+109C7", "U+109C8", "U+109C9", "U+109CA",
      "U+109CB", "U+109CC", "U+109CD", "U+109CE", "U+109CF", "U+109D2",
      "U+109D3", "U+109D4", "U+109D5", "U+109D6", "U+109D7", "U+109D8",
      "U+109D9", "U+109DA", "U+109DB", "U+109DC", "U+109DD", "U+109DE",
      "U+109DF", "U+109E0", "U+109E1", "U+109E2", "U+109E3", "U+109E4",
      "U+109E5", "U+109E6", "U+109E7", "U+109E8", "U+109E9", "U+109EA",
      "U+109EB", "U+109EC", "U+109ED", "U+109EE", "U+109EF", "U+109F0",
      "U+109F1", "U+109F2", "U+109F3", "U+109F4", "U+109F5", "U+109F6",
      "U+109F7", "U+109F8", "U+109F9", "U+109FA", "U+109FB", "U+109FC",
      "U+109FD", "U+109FE", "U+109FF", "U+10A40", "U+10A41", "U+10A42",
      "U+10A43", "U+10A44", "U+10A45", "U+10A46", "U+10A47", "U+10A48",
      "U+10A7D", "U+10A7E", "U+10A9D", "U+10A9E", "U+10A9F", "U+10AEB",
      "U+10AEC", "U+10AED", "U+10AEE", "U+10AEF", "U+10B58", "U+10B59",
      "U+10B5A", "U+10B5B", "U+10B5C", "U+10B5D", "U+10B5E", "U+10B5F",
      "U+10B78", "U+10B79", "U+10B7A", "U+10B7B", "U+10B7C", "U+10B7D",
      "U+10B7E", "U+10B7F", "U+10BA9", "U+10BAA", "U+10BAB", "U+10BAC",
      "U+10BAD", "U+10BAE", "U+10BAF", "U+10CFA", "U+10CFB", "U+10CFC",
      "U+10CFD", "U+10CFE", "U+10CFF", "U+10E60", "U+10E61", "U+10E62",
      "U+10E63", "U+10E64", "U+10E65", "U+10E66", "U+10E67", "U+10E68",
      "U+10E69", "U+10E6A", "U+10E6B", "U+10E6C", "U+10E6D", "U+10E6E",
      "U+10E6F", "U+10E70", "U+10E71", "U+10E72", "U+10E73", "U+10E74",
      "U+10E75", "U+10E76", "U+10E77", "U+10E78", "U+10E79", "U+10E7A",
      "U+10E7B", "U+10E7C", "U+10E7D", "U+10E7E", "U+10F1D", "U+10F1E",
      "U+10F1F", "U+10F20", "U+10F21", "U+10F22", "U+10F23", "U+10F24",
      "U+10F25", "U+10F26", "U+10F51", "U+10F52", "U+10F53", "U+10F54",
      "U+10FC5", "U+10FC6", "U+10FC7", "U+10FC8", "U+10FC9", "U+10FCA",
      "U+10FCB", "U+11052", "U+11053", "U+11054", "U+11055", "U+11056",
      "U+11057", "U+11058", "U+11059", "U+1105A", "U+1105B", "U+1105C",
      "U+1105D", "U+1105E", "U+1105F", "U+11060", "U+11061", "U+11062",
      "U+11063", "U+11064", "U+11065", "U+111E1", "U+111E2", "U+111E3",
      "U+111E4", "U+111E5", "U+111E6", "U+111E7", "U+111E8", "U+111E9",
      "U+111EA", "U+111EB", "U+111EC", "U+111ED", "U+111EE", "U+111EF",
      "U+111F0", "U+111F1", "U+111F2", "U+111F3", "U+111F4", "U+1173A",
      "U+1173B", "U+118EA", "U+118EB", "U+118EC", "U+118ED", "U+118EE",
      "U+118EF", "U+118F0", "U+118F1", "U+118F2", "U+11C5A", "U+11C5B",
      "U+11C5C", "U+11C5D", "U+11C5E", "U+11C5F", "U+11C60", "U+11C61",
      "U+11C62", "U+11C63", "U+11C64", "U+11C65", "U+11C66", "U+11C67",
      "U+11C68", "U+11C69", "U+11C6A", "U+11C6B", "U+11C6C", "U+11FC0",
      "U+11FC1", "U+11FC2", "U+11FC3", "U+11FC4", "U+11FC5", "U+11FC6",
      "U+11FC7", "U+11FC8", "U+11FC9", "U+11FCA", "U+11FCB", "U+11FCC",
      "U+11FCD", "U+11FCE", "U+11FCF", "U+11FD0", "U+11FD1", "U+11FD2",
      "U+11FD3", "U+11FD4", "U+12400", "U+12401", "U+12402", "U+12403",
      "U+12404", "U+12405", "U+12406", "U+12407", "U+12408", "U+12409",
      "U+1240A", "U+1240B", "U+1240C", "U+1240D", "U+1240E", "U+1240F",
      "U+12410", "U+12411", "U+12412", "U+12413", "U+12414", "U+12415",
      "U+12416", "U+12417", "U+12418", "U+12419", "U+1241A", "U+1241B",
      "U+1241C", "U+1241D", "U+1241E", "U+1241F", "U+12420", "U+12421",
      "U+12422", "U+12423", "U+12424", "U+12425", "U+12426", "U+12427",
      "U+12428", "U+12429", "U+1242A", "U+1242B", "U+1242C", "U+1242D",
      "U+1242E", "U+1242F", "U+12430", "U+12431", "U+12432", "U+12433",
      "U+12434", "U+12435", "U+12436", "U+12437", "U+12438", "U+12439",
      "U+1243A", "U+1243B", "U+1243C", "U+1243D", "U+1243E", "U+1243F",
      "U+12440", "U+12441", "U+12442", "U+12443", "U+12444", "U+12445",
      "U+12446", "U+12447", "U+12448", "U+12449", "U+1244A", "U+1244B",
      "U+1244C", "U+1244D", "U+1244E", "U+1244F", "U+12450", "U+12451",
      "U+12452", "U+12453", "U+12454", "U+12455", "U+12456", "U+12457",
      "U+12458", "U+12459", "U+1245A", "U+1245B", "U+1245C", "U+1245D",
      "U+1245E", "U+1245F", "U+12460", "U+12461", "U+12462", "U+12463",
      "U+12464", "U+12465", "U+12466", "U+12467", "U+12468", "U+12469",
      "U+1246A", "U+1246B", "U+1246C", "U+1246D", "U+1246E", "U+16B5B",
      "U+16B5C", "U+16B5D", "U+16B5E", "U+16B5F", "U+16B60", "U+16B61",
      "U+16E80", "U+16E81", "U+16E82", "U+16E83", "U+16E84", "U+16E85",
      "U+16E86", "U+16E87", "U+16E88", "U+16E89", "U+16E8A", "U+16E8B",
      "U+16E8C", "U+16E8D", "U+16E8E", "U+16E8F", "U+16E90", "U+16E91",
      "U+16E92", "U+16E93", "U+16E94", "U+16E95", "U+16E96", "U+1D2E0",
      "U+1D2E1", "U+1D2E2", "U+1D2E3", "U+1D2E4", "U+1D2E5", "U+1D2E6",
      "U+1D2E7", "U+1D2E8", "U+1D2E9", "U+1D2EA", "U+1D2EB", "U+1D2EC",
      "U+1D2ED", "U+1D2EE", "U+1D2EF", "U+1D2F0", "U+1D2F1", "U+1D2F2",
      "U+1D2F3", "U+1D360", "U+1D361", "U+1D362", "U+1D363", "U+1D364",
      "U+1D365", "U+1D366", "U+1D367", "U+1D368", "U+1D369", "U+1D36A",
      "U+1D36B", "U+1D36C", "U+1D36D", "U+1D36E", "U+1D36F", "U+1D370",
      "U+1D371", "U+1D372", "U+1D373", "U+1D374", "U+1D375", "U+1D376",
      "U+1D377", "U+1D378", "U+1E8C7", "U+1E8C8", "U+1E8C9", "U+1E8CA",
      "U+1E8CB", "U+1E8CC", "U+1E8CD", "U+1E8CE", "U+1E8CF", "U+1EC71",
      "U+1EC72", "U+1EC73", "U+1EC74", "U+1EC75", "U+1EC76", "U+1EC77",
      "U+1EC78", "U+1EC79", "U+1EC7A", "U+1EC7B", "U+1EC7C", "U+1EC7D",
      "U+1EC7E", "U+1EC7F", "U+1EC80", "U+1EC81", "U+1EC82", "U+1EC83",
      "U+1EC84", "U+1EC85", "U+1EC86", "U+1EC87", "U+1EC88", "U+1EC89",
      "U+1EC8A", "U+1EC8B", "U+1EC8C", "U+1EC8D", "U+1EC8E", "U+1EC8F",
      "U+1EC90", "U+1EC91", "U+1EC92", "U+1EC93", "U+1EC94", "U+1EC95",
      "U+1EC96", "U+1EC97", "U+1EC98", "U+1EC99", "U+1EC9A", "U+1EC9B",
      "U+1EC9C", "U+1EC9D", "U+1EC9E", "U+1EC9F", "U+1ECA0", "U+1ECA1",
      "U+1ECA2", "U+1ECA3", "U+1ECA4", "U+1ECA5", "U+1ECA6", "U+1ECA7",
      "U+1ECA8", "U+1ECA9", "U+1ECAA", "U+1ECAB", "U+1ECAD", "U+1ECAE",
      "U+1ECAF", "U+1ECB1", "U+1ECB2", "U+1ECB3", "U+1ECB4", "U+1ED01",
      "U+1ED02", "U+1ED03", "U+1ED04", "U+1ED05", "U+1ED06", "U+1ED07",
      "U+1ED08", "U+1ED09", "U+1ED0A", "U+1ED0B", "U+1ED0C", "U+1ED0D",
      "U+1ED0E", "U+1ED0F", "U+1ED10", "U+1ED11", "U+1ED12", "U+1ED13",
      "U+1ED14", "U+1ED15", "U+1ED16", "U+1ED17", "U+1ED18", "U+1ED19",
      "U+1ED1A", "U+1ED1B", "U+1ED1C", "U+1ED1D", "U+1ED1E", "U+1ED1F",
      "U+1ED20", "U+1ED21", "U+1ED22", "U+1ED23", "U+1ED24", "U+1ED25",
      "U+1ED26", "U+1ED27", "U+1ED28", "U+1ED29", "U+1ED2A", "U+1ED2B",
      "U+1ED2C", "U+1ED2D", "U+1ED2F", "U+1ED30", "U+1ED31", "U+1ED32",
      "U+1ED33", "U+1ED34", "U+1ED35", "U+1ED36", "U+1ED37", "U+1ED38",
      "U+1ED39", "U+1ED3A", "U+1ED3B", "U+1ED3C", "U+1ED3D", "U+1F100",
      "U+1F101", "U+1F102", "U+1F103", "U+1F104", "U+1F105", "U+1F106",
      "U+1F107", "U+1F108", "U+1F109", "U+1F10A", "U+1F10B", "U+1F10C",
      "U+20001", "U+20064", "U+200E2", "U+20121", "U+2092A", "U+20983",
      "U+2098C", "U+2099C", "U+20AEA", "U+20AFD", "U+20B19", "U+22390",
      "U+22998", "U+23B1B", "U+2626D", "U+2F890" }

IsDecimal(ch) == ch \in DecimalChars

\* ch.isnumeric()
IsNumeric(ch) == ch \in DecimalChars \/ ch \in OtherNumerics

\* the value int() gives a decimal digit of any script
DigitValue(ch) ==
    IF \E i \in 1..Len(Digits) : Digits[i] = ch
    THEN (CHOOSE i \in 1..Len(Digits) : Digits[i] = ch) - 1
    ELSE (CHOOSE i \in 1..Len(Digits) : \E row \in OtherScriptDigits : row[i] = ch) - 1

\* c.isspace(): the characters str.split() separates at.  Line tabulation (0x0B) and
\* the separators 0x1C to 0x1F have no escape and are written as they are.
Whitespace ==
    { "\t", "\n", "", "\f", "\r", "", "", "", "", " ", "U+0085", "U+00A0",
      "U+1680", "U+2000", "U+2001", "U+2002", "U+2003", "U+2004", "U+2005",
      "U+2006", "U+2007", "U+2008", "U+2009", "U+200A", "U+2028", "U+2029",
      "U+202F", "U+205F", "U+3000" }

\* the four ASCII separators: whitespace to str.split(), not to int() and float()
InformationSeparators == {"", "", "", ""}

\* the characters int() and float() drop around a number
NumberSpace == Whitespace \ InformationSeparators

(***************************************************************************)
(* Python str primitives.                                                  *)
(***************************************************************************)
RECURSIVE StrNat(_)
StrNat(n) == IF n < 10 THEN <<Digits[n + 1]>>
             ELSE StrNat(n \div 10) \o <<Digits[(n % 10) + 1]>>

\* str(n) of an int
Str(n) == IF n < 0 THEN <<"-">> \o StrNat(-n) ELSE StrNat(n)

RECURSIVE PadZeros(_, _)
PadZeros(s, w) == IF Len(s) >= w THEN s ELSE PadZeros(<<"0">> \o s, w)

\* s.zfill(w): zeros go after a leading sign
Zfill(s, w) ==
    IF Len(s) > 0 /\ s[1] \in {"+", "-"}
    THEN <<s[1]>> \o PadZeros(Tail(s), w - 1)
    ELSE PadZeros(s, w)

\* s[i:] and s[:i] for 0 <= i (Python offsets)
From(s, i) == SubSeq(s, i + 1, Len(s))

Upto(s, i) == SubSeq(s, 1, IF i < Len(s) THEN i ELSE Len(s))

\* s[i:j]
Slice(s, i, j) == SubSeq(s, i + 1, IF j < Len(s) THEN j ELSE Len(s))

Find(s, ch) == IF \E i \in 1..Len(s) : s[i] = ch
               THEN CHOOSE i \in 1..Len(s) : s[i] = ch /\ \A j \in 1..(i - 1) : s[j] # ch
               ELSE 0

\* s.split(sep) for a one-character sep: empty fields are kept
RECURSIVE Split(_, _)
Split(s, sep) ==
    LET i == Find(s, sep)
    IN  IF i = 0 THEN <<s>>
        ELSE <<SubSeq(s, 1, i - 1)>> \o Split(SubSeq(s, i + 1, Len(s)), sep)

\* the length of the longest prefix, and of the longest suffix, of s that is within set
LeadingRun(s, set) ==
    CHOOSE k \in 0..Len(s) : /\ \A i \in 1..k : s[i] \in set
                             /\ k = Len(s) \/ s[k + 1] \notin set

TrailingRun(s, set) ==
    CHOOSE k \in 0..Len(s) : /\ \A i \in 1..k : s[Len(s) + 1 - i] \in set
                             /\ k = Len(s) \/ s[Len(s) - k] \notin set

\* s without its leading, trailing, leading and trailing characters of a class
LStrip(s, space) == SubSeq(s, LeadingRun(s, space) + 1, Len(s))

RStrip(s, space) == SubSeq(s, 1, Len(s) - TrailingRun(s, space))

Strip(s, space) == RStrip(LStrip(s, space), space)

\* length of the leading run of non-whitespace characters
WordLen(s) ==
    CHOOSE k \in 0..Len(s) : /\ \A i \in 1..k : s[i] \notin Whitespace
                             /\ k = Len(s) \/ s[k + 1] \in Whitespace

\* s.split(): runs of whitespace separate, no empty fields
RECURSIVE SplitWS(_)
SplitWS(s) ==
    LET t == LStrip(s, Whitespace)
    IN  IF Len(t) = 0 THEN <<>>
        ELSE <<SubSeq(t, 1, WordLen(t))>> \o SplitWS(From(t, WordLen(t)))

(***************************************************************************)
(* int() and float() of a str.                                             *)
(***************************************************************************)
AllDecimal(s) == \A i \in 1..Len(s) : IsDecimal(s[i])

\* an underscore is accepted between two digits only
Grouped(s) ==
    \A i \in 1..Len(s) :
        s[i] = "_" => /\ 1 < i /\ i < Len(s)
                      /\ IsDecimal(s[i - 1]) /\ IsDecimal(s[i + 1])

NotUnderscore(ch) == ch # "_"

Ungroup(s) == SelectSeq(s, NotUnderscore)

\* the value of a run of decimal digits, within the integers TLC computes with
RECURSIVE DecValue(_)
DecValue(s) == IF Len(s) = 0 THEN 0
               ELSE 10 * DecValue(SubSeq(s, 1, Len(s) - 1)) + DigitValue(s[Len(s)])

\* int(s): surrounding whitespace is dropped, one sign allowed, then decimal digits of
\* any script, grouped by single underscores or not
ParseInt(s) ==
    LET t == Strip(s, NumberSpace)
        signed == Len(t) > 0 /\ t[1] \in {"+", "-"}
        d == IF signed THEN Tail(t) ELSE t
        digits == Ungroup(d)
    IN  IF Len(digits) > 0 /\ Grouped(d) /\ AllDecimal(digits)
        THEN Ok(IF signed /\ t[1] = "-" THEN 0 - DecValue(digits) ELSE DecValue(digits))
        ELSE Err("ValueError", "invalid literal for int() with base 10", s)

\* A float is kept as the decimal its text denotes, d1.d2d3... * 10^exp with d1 # 0
\* and no trailing zero, or as one of zero, inf and nan; neg is its sign.
FloatValue(kind, neg, digits, exp) ==
    [kind |-> kind, neg |-> neg, digits |-> digits, exp |-> exp]

\* 2^-1075, half the smallest positive float, is d1.d2d3... * 10^-324 with these digits:
\* what is not above it converts to zero
HalfSmallest ==
    << 2, 4, 7, 0, 3, 2, 8, 2, 2, 9, 2, 0, 6, 2, 3, 2, 7, 2, 0, 8, 8, 2, 8, 4,
       3, 9, 6, 4, 3, 4, 1, 1, 0, 6, 8, 6, 1, 8, 2, 5, 2, 9, 9, 0, 1, 3, 0, 7,
       1, 6, 2, 3, 8, 2, 2, 1, 2, 7, 9, 2, 8, 4, 1, 2, 5, 0, 3, 3, 7, 7, 5, 3,
       6, 3, 5, 1, 0, 4, 3, 7, 5, 9, 3, 2, 6, 4, 9, 9, 1, 8, 1, 8, 0, 8, 1, 7,
       9, 9, 6, 1, 8, 9, 8, 9, 8, 2, 8, 2, 3, 4, 7, 7, 2, 2, 8, 5, 8, 8, 6, 5,
       4, 6, 3, 3, 2, 8, 3, 5, 5, 1, 7, 7, 9, 6, 9, 8, 9, 8, 1, 9, 9, 3, 8, 7,
       3, 9, 8, 0, 0, 5, 3, 9, 0, 9, 3, 9, 0, 6, 3, 1, 5, 0, 3, 5, 6, 5, 9, 5,
       1, 5, 5, 7, 0, 2, 2, 6, 3, 9, 2, 2, 9, 0, 8, 5, 8, 3, 9, 2, 4, 4, 9, 1,
       0, 5, 1, 8, 4, 4, 3, 5, 9, 3, 1, 8, 0, 2, 8, 4, 9, 9, 3, 6, 5, 3, 6, 1,
       5, 2, 5, 0, 0, 3, 1, 9, 3, 7, 0, 4, 5, 7, 6, 7, 8, 2, 4, 9, 2, 1, 9, 3,
       6, 5, 6, 2, 3, 6, 6, 9, 8, 6, 3, 6, 5, 8, 4, 8, 0, 7, 5, 7, 0, 0, 1, 5,
       8, 5, 7, 6, 9, 2, 6, 9, 9, 0, 3, 7, 0, 6, 3, 1, 1, 9, 2, 8, 2, 7, 9, 5,
       5, 8, 5, 5, 1, 3, 3, 2, 9, 2, 7, 8, 3, 4, 3, 3, 8, 4, 0, 9, 3, 5, 1, 9,
       7, 8, 0, 1, 5, 5, 3, 1, 2, 4, 6, 5, 9, 7, 2, 6, 3, 5, 7, 9, 5, 7, 4, 6,
       2, 2, 7, 6, 6, 4, 6, 5, 2, 7, 2, 8, 2, 7, 2, 2, 0, 0, 5, 6, 3, 7, 4, 0,
       0, 6, 4, 8, 5, 4, 9, 9, 9, 7, 7, 0, 9, 6, 5, 9, 9, 4, 7, 0, 4, 5, 4, 0,
       2, 0, 8, 2, 8, 1, 6, 6, 2, 2, 6, 2, 3, 7, 8, 5, 7, 3, 9, 3, 4, 5, 0, 7,
       3, 6, 3, 3, 9, 0, 0, 7, 9, 6, 7, 7, 6, 1, 9, 3, 0, 5, 7, 7, 5, 0, 6, 7,
       4, 0, 1, 7, 6, 3, 2, 4, 6, 7, 3, 6, 0, 0, 9, 6, 8, 9, 5, 1, 3, 4, 0, 5,
       3, 5, 5, 3, 7, 4, 5, 8, 5, 1, 6, 6, 6, 1, 1, 3, 4, 2, 2, 3, 7, 6, 6, 6,
       7, 8, 6, 0, 4, 1, 6, 2, 1, 5, 9, 6, 8, 0, 4, 6, 1, 9, 1, 4, 4, 6, 7, 2,
       9, 1, 8, 4, 0, 3, 0, 0, 5, 3, 0, 0, 5, 7, 5, 3, 0, 8, 4, 9, 0, 4, 8, 7,
       6, 5, 3, 9, 1, 7, 1, 1, 3, 8, 6, 5, 9, 1, 6, 4, 6, 2, 3, 9, 5, 2, 4, 9,
       1, 2, 6, 2, 3, 6, 5, 3, 8, 8, 1, 8, 7, 9, 6, 3, 6, 2, 3, 9, 3, 7, 3, 2,
       8, 0, 4, 2, 3, 8, 9, 1, 0, 1, 8, 6, 7, 2, 3, 4, 8, 4, 9, 7, 6, 6, 8, 2,
       3, 5, 0, 8, 9, 8, 6, 3, 3, 8, 8, 5, 8, 7, 9, 2, 5, 6, 2, 8, 3, 0, 2, 7,
       5, 5, 9, 9, 5, 6, 5, 7, 5, 2, 4, 4, 5, 5, 5, 0, 7, 2, 5, 5, 1, 8, 9, 3,
       1, 3, 6, 9, 0, 8, 3, 6, 2, 5, 4, 7, 7, 9, 1, 8, 6, 9, 4, 8, 6, 6, 7, 9,
       9, 4, 9, 6, 8, 3, 2, 4, 0, 4, 9, 7, 0, 5, 8, 2, 1, 0, 2, 8, 5, 1, 3, 1,
       8, 5, 4, 5, 1, 3, 9, 6, 2, 1, 3, 8, 3, 7, 7, 2, 2, 8, 2, 6, 1, 4, 5, 4,
       3, 7, 6, 9, 3, 4, 1, 2, 5, 3, 2, 0, 9, 8, 5, 9, 1, 3, 2, 7, 6, 6, 7, 2,
       3, 6, 3, 2, 8, 1, 2, 5 >>

\* 2^1024 - 2^970, half a step above the largest float, is d1.d2d3... * 10^308 with
\* these digits: what is not below it converts to inf
AboveLargest ==
    << 1, 7, 9, 7, 6, 9, 3, 1, 3, 4, 8, 6, 2, 3, 1, 5, 8, 0, 7, 9, 3, 7, 2, 8,
       9, 7, 1, 4, 0, 5, 3, 0, 3, 4, 1, 5, 0, 7, 9, 9, 3, 4, 1, 3, 2, 7, 1, 0,
       0, 3, 7, 8, 2, 6, 9, 3, 6, 1, 7, 3, 7, 7, 8, 9, 8, 0, 4, 4, 4, 9, 6, 8,
       2, 9, 2, 7, 6, 4, 7, 5, 0, 9, 4, 6, 6, 4, 9, 0, 1, 7, 9, 7, 7, 5, 8, 7,
       2, 0, 7, 0, 9, 6, 3, 3, 0, 2, 8, 6, 4, 1, 6, 6, 9, 2, 8, 8, 7, 9, 1, 0,
       9, 4, 6, 5, 5, 5, 5, 4, 7, 8, 5, 1, 9, 4, 0, 4, 0, 2, 6, 3, 0, 6, 5, 7,
       4, 8, 8, 6, 7, 1, 5, 0, 5, 8, 2, 0, 6, 8, 1, 9, 0, 8, 9, 0, 2, 0, 0, 0,
       7, 0, 8, 3, 8, 3, 6, 7, 6, 2, 7, 3, 8, 5, 4, 8, 4, 5, 8, 1, 7, 7, 1, 1,
       5, 3, 1, 7, 6, 4, 4, 7, 5, 7, 3, 0, 2, 7, 0, 0, 6, 9, 8, 5, 5, 5, 7, 1,
       3, 6, 6, 9, 5, 9, 6, 2, 2, 8, 4, 2, 9, 1, 4, 8, 1, 9, 8, 6, 0, 8, 3, 4,
       9, 3, 6, 4, 7, 5, 2, 9, 2, 7, 1, 9, 0, 7, 4, 1, 6, 8, 4, 4, 4, 3, 6, 5,
       5, 1, 0, 7, 0, 4, 3, 4, 2, 7, 1, 1, 5, 5, 9, 6, 9, 9, 5, 0, 8, 0, 9, 3,
       0, 4, 2, 8, 8, 0, 1, 7, 7, 9, 0, 4, 1, 7, 4, 4, 9, 7, 7, 9, 2 >>

DigitAt(d, i) == IF i <= Len(d) THEN d[i] ELSE 0

\* -1, 0 or 1 as the digits a, read as a.aaa..., are below, equal to or above those of b
CompareDigits(a, b) ==
    LET n == IF Len(a) > Len(b) THEN Len(a) ELSE Len(b)
        same == CHOOSE k \in 0..n : /\ \A i \in 1..k : DigitAt(a, i) = DigitAt(b, i)
                                    /\ k = n \/ DigitAt(a, k + 1) # DigitAt(b, k + 1)
    IN  IF same = n THEN 0
        ELSE IF DigitAt(a, same + 1) < DigitAt(b, same + 1) THEN -1 ELSE 1

\* float() reads inf, infinity and nan in any case
Lower(ch) ==
    CASE ch = "A" -> "a" [] ch = "F" -> "f" [] ch = "I" -> "i" [] ch = "N" -> "n"
      [] ch = "T" -> "t" [] ch = "Y" -> "y" [] OTHER -> ch

Lowered(s) == [i \in 1..Len(s) |-> Lower(s[i])]

\* length of the leading run of decimal digits
DecimalRun(s) == LeadingRun(s, DecimalChars)

DigitValues(s) == [i \in 1..Len(s) |-> DigitValue(s[i])]

LeadingZeros(d) == LeadingRun(d, {0})

NoTrailingZeros(d) == SubSeq(d, 1, Len(d) - TrailingRun(d, {0}))

\* the value of the exponent's digits; an exponent of ten digits or more counts as 10^9,
\* far beyond both ends of the range
Exponent(s) ==
    LET d == From(s, LeadingZeros(DigitValues(s)))
    IN  IF Len(d) > 9 THEN 1000000000 ELSE DecValue(d)

\* the float of the decimal with digits d, the point after the first `point` of them,
\* times 10^exp
Rounded(neg, d, point, exp) ==
    LET lead == LeadingZeros(d)
        digits == NoTrailingZeros(From(d, lead))
        e == point - lead - 1 + exp
    IN  IF Len(digits) = 0 THEN FloatValue("zero", neg, <<>>, 0)
        ELSE IF e < -324 \/ (e = -324 /\ CompareDigits(digits, HalfSmallest) <= 0)
        THEN FloatValue("zero", neg, <<>>, 0)
        ELSE IF e > 308 \/ (e = 308 /\ CompareDigits(digits, AboveLargest) >= 0)
        THEN FloatValue("inf", neg, <<>>, 0)
        ELSE FloatValue("finite", neg, digits, e)

FloatError(word) == Err("ValueError", "could not convert string to float", word)

\* the exponent part: nothing, or e or E, an optional sign and digits
FloatExponent(word, neg, whole, fraction, rest) ==
    LET signed == Len(rest) > 1 /\ rest[2] \in {"+", "-"}
        digits == From(rest, IF signed THEN 2 ELSE 1)
        mantissa == DigitValues(whole \o fraction)
    IN  IF Len(whole) + Len(fraction) = 0 THEN FloatError(word)
        ELSE IF Len(rest) = 0 THEN Ok(Rounded(neg, mantissa, Len(whole), 0))
        ELSE IF rest[1] \notin {"e", "E"} \/ Len(digits) = 0 \/ ~AllDecimal(digits)
        THEN FloatError(word)
        ELSE Ok(Rounded(neg, mantissa, Len(whole),
                        IF signed /\ rest[2] = "-" THEN 0 - Exponent(digits)
                        ELSE Exponent(digits)))

\* the fraction part: nothing, or a point and a run of digits
FloatFraction(word, neg, whole, rest) ==
    IF Len(rest) > 0 /\ rest[1] = "."
    THEN FloatExponent(word, neg, whole, SubSeq(rest, 2, 1 + DecimalRun(Tail(rest))),
                       From(rest, 1 + DecimalRun(Tail(rest))))
    ELSE FloatExponent(word, neg, whole, <<>>, rest)

\* inf, infinity or nan, or a run of digits and what follows it
FloatUnsigned(word, neg, body) ==
    IF Lowered(body) \in {<<"i", "n", "f">>, <<"i", "n", "f", "i", "n", "i", "t", "y">>}
    THEN Ok(FloatValue("inf", neg, <<>>, 0))
    ELSE IF Lowered(body) = <<"n", "a", "n">>
    THEN Ok(FloatValue("nan", neg, <<>>, 0))
    ELSE FloatFraction(word, neg, SubSeq(body, 1, DecimalRun(body)),
                       From(body, DecimalRun(body)))

\* float(word): surrounding whitespace is dropped, one sign allowed, then inf, infinity,
\* nan, or digits with an optional point and an optional exponent
Float(word) ==
    LET t == Strip(word, NumberSpace)
        signed == Len(t) > 0 /\ t[1] \in {"+", "-"}
        grouped == IF signed THEN Tail(t) ELSE t
    IN  IF ~Grouped(grouped) THEN FloatError(word)
        ELSE FloatUnsigned(word, signed /\ t[1] = "-", Ungroup(grouped))

(***************************************************************************)
(* ElementInfo: the element symbol <-> atomic number table the codec       *)
(* consults.  An unknown symbol or number raises the lookup's error.       *)
(***************************************************************************)
ElementTable ==
    { [z |-> 1,  sym |-> <<"H">>],
      [z |-> 6,  sym |-> <<"C">>],
      [z |-> 26, sym |-> <<"F", "e">>],
      [z |-> 27, sym |-> <<"C", "o">>],
      [z |-> 28, sym |-> <<"N", "i">>],
      [z |-> 62, sym |-> <<"S", "m">>],
      [z |-> 90, sym |-> <<"T", "h">>],
      [z |-> 92, sym |-> <<"U">>],
      [z |-> 96, sym |-> <<"C", "m">>] }

get_element_symbol_from_atomic_number(n) ==
    IF \E e \in ElementTable : e.z = n
    THEN Ok((CHOOSE e \in ElementTable : e.z = n).sym)
    ELSE Err("LookupError", "unknown atomic number", Str(n))

get_atomic_number_from_element_symbol(s) ==
    IF \E e \in ElementTable : e.sym = s
    THEN Ok((CHOOSE e \in ElementTable : e.sym = s).z)
    ELSE Err("LookupError", "unknown element symbol", s)

(***************************************************************************)
(* The identifier codec.                                                   *)
(***************************************************************************)
FieldWidth == 3

\* "m{}".format(energy_state), appended when energy_state is truthy
EnergySuffix(energy_state) ==
    IF energy_state # 0 THEN <<"m">> \o Str(energy_state) ELSE <<>>

\* a variant that does not zero-pad the atomic number
filename_from_nuclear_data_NoPad(atomic_number, atomic_mass, energy_state) ==
    LET sym == get_element_symbol_from_atomic_number(atomic_number)
    IN  IF ~sym.ok THEN sym
        ELSE Ok(<<"d", "e", "c", "-">> \o Str(atomic_number)
                \o <<"_">> \o sym.val \o <<"_">>
                \o Zfill(Str(atomic_mass), FieldWidth)
                \o EnergySuffix(energy_state)
                \o <<".", "e", "n", "d", "f">>)

filename_from_nuclear_data(atomic_number, atomic_mass, energy_state) ==
    LET sym == get_element_symbol_from_atomic_number(atomic_number)
    IN  IF ~sym.ok THEN sym
        ELSE Ok(<<"d", "e", "c", "-">> \o Zfill(Str(atomic_number), FieldWidth)
                \o <<"_">> \o sym.val \o <<"_">>
                \o Zfill(Str(atomic_mass), FieldWidth)
                \o EnergySuffix(energy_state)
                \o <<".", "e", "n", "d", "f">>)

isomer_name_from_nuclear_data(atomic_number, atomic_mass, energy_state) ==
    LET sym == get_element_symbol_from_atomic_number(atomic_number)
    IN  IF ~sym.ok THEN sym
        ELSE Ok(sym.val \o Str(atomic_mass) \o EnergySuffix(energy_state))

\* int(mass_and_group[0]), then int(mass_and_group[1]) with IndexError -> 0
MassAndEnergy(atomic_number, mass_and_group) ==
    LET mass == ParseInt(mass_and_group[1])
        energy == IF Len(mass_and_group) >= 2 THEN ParseInt(mass_and_group[2]) ELSE Ok(0)
    IN  IF ~mass.ok THEN mass
        ELSE IF ~energy.ok THEN energy
        ELSE Ok(<<atomic_number, mass.val, energy.val>>)

\* the index of the first numeric character (0-based), or -1: the loop never assigns
FirstNumeric(isomer_name) ==
    IF \E i \in 1..Len(isomer_name) : IsNumeric(isomer_name[i])
    THEN (CHOOSE i \in 1..Len(isomer_name) :
              /\ IsNumeric(isomer_name[i])
              /\ \A j \in 1..(i - 1) : ~IsNumeric(isomer_name[j])) - 1
    ELSE -1

\* a variant that splits the whole name on "m", symbol included
nuclear_data_from_name_SplitsWholeName(isomer_name) ==
    LET n_char_symbol == FirstNumeric(isomer_name)
        mass_and_group == Split(isomer_name, "m")
        head == mass_and_group[1]
        symbol == Upto(head, FirstNumeric(head))
        atomic_number == get_atomic_number_from_element_symbol(symbol)
    IN  IF n_char_symbol < 0 \/ FirstNumeric(head) < 0
        THEN Err("UnboundLocalError", "cannot access local variable", <<>>)
        ELSE IF ~atomic_number.ok THEN atomic_number
        ELSE MassAndEnergy(atomic_number.val,
                           <<From(head, FirstNumeric(head))>> \o Tail(mass_and_group))

nuclear_data_from_name(isomer_name) ==
    LET n_char_symbol == FirstNumeric(isomer_name)
    IN  IF n_char_symbol < 0
        THEN Err("UnboundLocalError", "cannot access local variable", <<>>)
        ELSE LET symbol == Upto(isomer_name, n_char_symbol)
                 atomic_number == get_atomic_number_from_element_symbol(symbol)
             IN  IF ~atomic_number.ok THEN atomic_number
                 ELSE MassAndEnergy(atomic_number.val,
                                    Split(From(isomer_name, n_char_symbol), "m"))

filename_from_isomer_name(isomer_name) ==
    LET nuclear_data == nuclear_data_from_name(isomer_name)
    IN  IF ~nuclear_data.ok THEN nuclear_data
        ELSE filename_from_nuclear_data(nuclear_data.val[1], nuclear_data.val[2],
                                        nuclear_data.val[3])

nuclear_data_from_filename(filename) ==
    LET atomic_number == ParseInt(Slice(filename, 4, 7))
        segments == Split(filename, "_")
    IN  IF ~atomic_number.ok THEN atomic_number
        ELSE IF Len(segments) < 3 THEN Err("IndexError", "list index out of range", <<>>)
        ELSE MassAndEnergy(atomic_number.val, Split(Split(segments[3], ".")[1], "m"))

isomer_name_from_filename(filename) ==
    LET nuclear_data == nuclear_data_from_filename(filename)
    IN  IF ~nuclear_data.ok THEN nuclear_data
        ELSE isomer_name_from_nuclear_data(nuclear_data.val[1], nuclear_data.val[2],
                                           nuclear_data.val[3])

(***************************************************************************)
(* Inputs of the codec.                                                    *)
(***************************************************************************)
RECURSIVE Pow10(_)
Pow10(k) == IF k = 0 THEN 1 ELSE 10 * Pow10(k - 1)

\* the largest value a zero-padded field of FieldWidth characters holds
MaxField == Pow10(FieldWidth) - 1

KnownAtomicNumbers == {e.z : e \in ElementTable}

\* 0 is the atomic number of no element
AtomicNumberInputs == KnownAtomicNumbers \cup {0}

MassInputs == (1..MaxMass) \cup {MaxField}

EnergyStateInputs == 0..MaxEnergyState

TripleInputs == AtomicNumberInputs \X MassInputs \X EnergyStateInputs

NameAlphabet == {"C", "o", "m", "6", "1"}

\* names with what int() reads beyond plain digits: grouping underscores, surrounding
\* whitespace, a sign, digits of another script; and with numerics int() does not read
NameInputsNotation ==
    { <<"C", "o", "6", "_", "0", "m", "1">>,
      <<"C", "o", "6", "_", "_", "0">>,
      <<"C", "o", "6", "0", "\r">>,
      <<"C", "o", "6", "0", "m", "1", "\f">>,
      <<"C", "o", "6", "0", "m", "+", "1">>,
      <<"C", "o", "6", "0", "m", "-", "1">>,
      <<"C", "o", "U+0666", "U+0660">>,
      <<"C", "o", "U+00B2">>,
      <<"C", "o", "U+00BD", "6">>,
      <<"m", "U+00B2">> }

NameInputs == UNION {[1..n -> NameAlphabet] : n \in 0..MaxNameLen} \cup NameInputsNotation

FilenameInputs ==
    { <<"d", "e", "c", "-", "0", "2", "7", "_", "C", "o", "_", "0", "6", "0", "m", "1",
        ".", "e", "n", "d", "f">>,
      <<"d", "e", "c", "-", "0", "2", "7", "_", "C", "o", "0", "6", "0", ".", "e", "n", "d", "f">>,
      <<"C", "o", "6", "0", ".", "e", "n", "d", "f">>,
      <<"d", "e", "c", "-", "0", "0", "6", "_", "C", "_", "0", "1", "m", ".", "e", "n", "d", "f">>,
      <<"d", "e", "c", "-", "2", "_", "7", "_", "0", "6", "0", ".", "e", "n", "d", "f">>,
      <<"d", "e", "c", "-", "\f", "2", "7", "_", "C", "o", "_", "0", "6", "0",
        ".", "e", "n", "d", "f">>,
      <<"d", "e", "c", "-", "U+0660", "U+0662", "U+0667", "_", "C", "o", "_", "6", "0", "\r",
        "m", "1", ".", "e", "n", "d", "f">>,
      <<>> }

NotHeld == Err("", "", <<>>)

NoCall == [op |-> "", src |-> "", arg |-> <<>>, ret |-> NotHeld]

Call(op, src, arg, ret) == [op |-> op, src |-> src, arg |-> arg, ret |-> ret]

(***************************************************************************)
(* The loader's state when nothing has been loaded.                        *)
(***************************************************************************)
NoFile == [exists |-> FALSE, lines |-> <<>>]

NoLocals == [assigned |-> {}, isomer_name |-> <<>>, decay_rate_word |-> <<>>,
             decay_rate_unit |-> <<>>, decay_mode |-> <<>>]

\* the float 0.0; any other rate is kept as the expression the code evaluates:
\* log(2) / half_life, then scaled by the factor of the unit
ZeroRate == [zero |-> TRUE, half_life |-> [kind |-> "zero", neg |-> FALSE, digits |-> <<>>, exp |-> 0],
             op |-> "", factor |-> <<0, 0>>]

NoObject == [bound |-> FALSE, dict |-> {}, _isomer_name |-> <<>>,
             _atomic_number |-> 0, _atomic_mass |-> 0, _energy_state |-> 0,
             _stable |-> FALSE, _decay_rate |-> ZeroRate,
             _decay_atomic_number_change |-> 0, _decay_atomic_mass_change |-> 0]

NoOut == [op |-> "", ret |-> NotHeld]

LoaderIdle == /\ file_content = NoFile
              /\ obj = NoObject
              /\ raised = NoError
              /\ locals = NoLocals
              /\ out = NoOut

loaderVars == <<file_content, obj, raised, locals, out>>

codecVars == <<nd_in, name_v, fname_v, call>>

(***************************************************************************)
(* Codec operations applied to a triple and to what was encoded from it.   *)
(***************************************************************************)
InitCodec == /\ nd_in \in TripleInputs
             /\ name_v = NotHeld
             /\ fname_v = NotHeld
             /\ call = NoCall
             /\ LoaderIdle

IsomerNameFromNuclearData ==
    LET r == isomer_name_from_nuclear_data(nd_in[1], nd_in[2], nd_in[3])
    IN  /\ name_v' = r
        /\ call' = Call("isomer_name_from_nuclear_data", "nd_in", nd_in, r)
        /\ UNCHANGED <<nd_in, fname_v, loaderVars>>

FilenameFromNuclearData ==
    LET r == filename_from_nuclear_data(nd_in[1], nd_in[2], nd_in[3])
    IN  /\ fname_v' = r
        /\ call' = Call("filename_from_nuclear_data", "nd_in", nd_in, r)
        /\ UNCHANGED <<nd_in, name_v, loaderVars>>

NuclearDataFromName ==
    /\ name_v.ok
    /\ call' = Call("nuclear_data_from_name", "name_v", name_v.val,
                    nuclear_data_from_name(name_v.val))
    /\ UNCHANGED <<nd_in, name_v, fname_v, loaderVars>>

NuclearDataFromFilename ==
    /\ fname_v.ok
    /\ call' = Call("nuclear_data_from_filename", "fname_v", fname_v.val,
                    nuclear_data_from_filename(fname_v.val))
    /\ UNCHANGED <<nd_in, name_v, fname_v, loaderVars>>

FilenameFromIsomerName ==
    /\ name_v.ok
    /\ LET r == filename_from_isomer_name(name_v.val)
       IN  /\ fname_v' = r
           /\ call' = Call("filename_from_isomer_name", "name_v", name_v.val, r)
    /\ UNCHANGED <<nd_in, name_v, loaderVars>>

IsomerNameFromFilename ==
    /\ fname_v.ok
    /\ LET r == isomer_name_from_filename(fname_v.val)
       IN  /\ name_v' = r
           /\ call' = Call("isomer_name_from_filename", "fname_v", fname_v.val, r)
    /\ UNCHANGED <<nd_in, fname_v, loaderVars>>

NextCodec == \/ IsomerNameFromNuclearData
             \/ FilenameFromNuclearData
             \/ NuclearDataFromName
             \/ NuclearDataFromFilename
             \/ FilenameFromIsomerName
             \/ IsomerNameFromFilename

SpecCodec == InitCodec /\ [][NextCodec]_vars

(***************************************************************************)
(* The decoding operations applied to strings a caller supplies: the       *)
(* caller starts out holding an arbitrary name and an arbitrary filename.  *)
(***************************************************************************)
InitParse == /\ nd_in = <<0, 0, 0>>
             /\ name_v \in {Ok(s) : s \in NameInputs}
             /\ fname_v \in {Ok(f) : f \in FilenameInputs}
             /\ call = NoCall
             /\ LoaderIdle

NextParse == \/ NuclearDataFromName
             \/ NuclearDataFromFilename
             \/ FilenameFromIsomerName
             \/ IsomerNameFromFilename

SpecParse == InitParse /\ [][NextParse]_vars

(***************************************************************************)
(* The constructor: parsing of the decay-data file.                        *)
(***************************************************************************)
ParentHalfLife ==
    <<"P", "a", "r", "e", "n", "t", " ", "h", "a", "l", "f", "-", "l", "i", "f", "e">>

DecayMode == <<"D", "e", "c", "a", "y", " ", "M", "o", "d", "e">>

STABLE == <<"S", "T", "A", "B", "L", "E">>

\* line[:n] == marker
StartsWith(line, marker) == Upto(line, Len(marker)) = marker

\* the index of the first line the for loop breaks on, 0 when it runs to its else
FirstLine(lines, marker) ==
    IF \E i \in 1..Len(lines) : StartsWith(lines[i], marker)
    THEN CHOOSE i \in 1..Len(lines) :
             /\ StartsWith(lines[i], marker)
             /\ \A j \in 1..(i - 1) : ~StartsWith(lines[j], marker)
    ELSE 0

\* line.split()[2] of the decay mode line
DecayModeField(line) ==
    LET fields == SplitWS(line)
    IN  IF Len(fields) < 3 THEN Err("IndexError", "list index out of range", <<>>)
        ELSE Ok(fields[3])

\* the match on decay_rate_unit: the factor is <<mantissa, power of ten>>
UnitScale(decay_rate_unit) ==
    CASE decay_rate_unit = <<"P", "S">> -> [known |-> TRUE, op |-> "*", factor |-> <<1, 12>>]
      [] decay_rate_unit = <<"N", "S">> -> [known |-> TRUE, op |-> "*", factor |-> <<1, 9>>]
      [] decay_rate_unit = <<"U", "S">> -> [known |-> TRUE, op |-> "*", factor |-> <<1, 6>>]
      [] decay_rate_unit = <<"M", "S">> -> [known |-> TRUE, op |-> "*", factor |-> <<1, 3>>]
      [] decay_rate_unit = <<"S">>      -> [known |-> TRUE, op |-> "", factor |-> <<1, 0>>]
      [] decay_rate_unit = <<"M">>      -> [known |-> TRUE, op |-> "/", factor |-> <<60, 0>>]
      [] decay_rate_unit = <<"H">>      -> [known |-> TRUE, op |-> "/", factor |-> <<36, 2>>]
      [] decay_rate_unit = <<"D">>      -> [known |-> TRUE, op |-> "/", factor |-> <<864, 2>>]
      [] decay_rate_unit = <<"Y">>      -> [known |-> TRUE, op |-> "/", factor |-> <<31536, 3>>]
      [] OTHER -> [known |-> FALSE, op |-> "", factor |-> <<0, 0>>]

\* the match on decay_mode
DecayModeChange(decay_mode) ==
    CASE decay_mode = <<"A">>      -> [known |-> TRUE, number |-> -2, mass |-> -4]
      [] decay_mode = <<"B", "-">> -> [known |-> TRUE, number |-> 1, mass |-> 0]
      [] decay_mode = <<"E", "C">> -> [known |-> TRUE, number |-> -1, mass |-> 0]
      [] OTHER -> [known |-> FALSE, number |-> 0, mass |-> 0]

\* self.<attr> = value
SetAttr(self, attr, value) == [self EXCEPT ![attr] = value, !.dict = @ \cup {attr}]

\* <local> = value
SetLocal(loc, name, value) == [loc EXCEPT ![name] = value, !.assigned = @ \cup {name}]

Exit(self, loc, error) == [self |-> self, locals |-> loc, raised |-> error]

\* a variant of the stable branch that returns before the two changes are stored
StableBranch_NoChanges(self) ==
    SetAttr(SetAttr(self, "_stable", TRUE), "_decay_rate", ZeroRate)

\* the stable branch: the four assignments and the return
StableBranch(self) ==
    SetAttr(SetAttr(SetAttr(SetAttr(self, "_stable", TRUE),
                            "_decay_rate", ZeroRate),
                    "_decay_atomic_number_change", 0),
            "_decay_atomic_mass_change", 0)

\* the decay mode part of __init__
InitDecayMode(self, loc, lines) ==
    LET i == FirstLine(lines, DecayMode)
        field == DecayModeField(lines[i])
        loc1 == SetLocal(loc, "decay_mode", field.val)
        change == DecayModeChange(field.val)
    IN  IF i = 0
        THEN Exit(self, loc, [exc |-> "ValueError", text |-> "No decay mode in this file",
                              arg |-> <<>>])
        ELSE IF ~field.ok THEN Exit(self, loc, ErrorOf(field))
        ELSE IF ~change.known
        THEN Exit(self, loc1, [exc |-> "ValueError", text |-> "Unknown decay mode",
                               arg |-> field.val])
        ELSE Exit(SetAttr(SetAttr(self, "_decay_atomic_number_change", change.number),
                          "_decay_atomic_mass_change", change.mass),
                  loc1, NoError)

\* the decay rate part of __init__, from the STABLE test on
InitDecayRate(self, loc, lines) ==
    LET half_life == Float(loc.decay_rate_word)
        scale == UnitScale(loc.decay_rate_unit)
        self1 == SetAttr(self, "_stable", FALSE)
        rate(op, factor) == [zero |-> FALSE, half_life |-> half_life.val,
                             op |-> op, factor |-> factor]
        self2 == SetAttr(self1, "_decay_rate", rate("", <<1, 0>>))
        self3 == SetAttr(self1, "_decay_rate", rate(scale.op, scale.factor))
    IN  IF loc.decay_rate_word = STABLE THEN Exit(StableBranch(self), loc, NoError)
        ELSE IF ~half_life.ok THEN Exit(self1, loc, ErrorOf(half_life))
        ELSE IF half_life.val.kind = "zero"
        THEN Exit(self1, loc, [exc |-> "ZeroDivisionError", text |-> "float division by zero",
                               arg |-> <<>>])
        ELSE IF ~scale.known
        THEN Exit(self2, loc, [exc |-> "ValueError", text |-> "Unknown Half-Life Unit",
                               arg |-> loc.decay_rate_unit])
        ELSE InitDecayMode(self3, loc, lines)

\* the scan for the parent half-life line: line.split(" ")[2] and line.split(" ")[3]
InitHalfLife(self, loc, lines) ==
    LET i == FirstLine(lines, ParentHalfLife)
        fields == Split(lines[i], " ")
        loc1 == SetLocal(loc, "decay_rate_word", fields[3])
        loc2 == SetLocal(loc1, "decay_rate_unit", fields[4])
        IndexError == [exc |-> "IndexError", text |-> "list index out of range", arg |-> <<>>]
    IN  IF i = 0
        THEN Exit(self, loc, [exc |-> "ValueError", text |-> "No decay rate in this file",
                              arg |-> <<>>])
        ELSE IF Len(fields) < 3 THEN Exit(self, loc, IndexError)
        ELSE IF Len(fields) < 4 THEN Exit(self, loc1, IndexError)
        ELSE InitDecayRate(self, loc2, lines)

\* IsomerData.__init__(isomer_name, data_directory_prefix) against the file at the
\* resolved path
IsomerData__init__(isomer_name, file) ==
    LET loc == SetLocal(NoLocals, "isomer_name", isomer_name)
        self0 == SetAttr(NoObject, "_isomer_name", isomer_name)
        nuclear_data == nuclear_data_from_name(isomer_name)
        self1 == SetAttr(SetAttr(SetAttr(self0, "_atomic_number", nuclear_data.val[1]),
                                 "_atomic_mass", nuclear_data.val[2]),
                         "_energy_state", nuclear_data.val[3])
        filename == filename_from_isomer_name(isomer_name)
    IN  IF ~nuclear_data.ok THEN Exit(self0, loc, ErrorOf(nuclear_data))
        ELSE IF ~filename.ok THEN Exit(self1, loc, ErrorOf(filename))
        ELSE IF ~file.exists
        THEN Exit(self1, loc, [exc |-> "FileNotFoundError",
                               text |-> "No such file or directory",
                               arg |-> filename.val])
        ELSE InitHalfLife(self1, loc, file.lines)

(***************************************************************************)
(* Attribute access on an instance.                                        *)
(***************************************************************************)
AttributeError(attr) ==
    Err("AttributeError", "'IsomerData' object has no attribute", attr)

\* self.<attr> for a name the class does not define: the instance's __dict__
InstanceAttr(self, attr) ==
    IF attr \in self.dict THEN Ok(self[attr]) ELSE AttributeError(attr)

\* the read-only properties that return one stored attribute
StoredProperties ==
    {"stable", "decay_rate", "decay_atomic_number_change", "decay_atomic_mass_change",
     "atomic_number", "atomic_mass", "energy_state"}

StoredProperty(self, p) == InstanceAttr(self, "_" \o p)

\* a variant that keeps the parent's energy state
daughter_name_KeepsEnergyState(self) ==
    isomer_name_from_nuclear_data(self._atomic_number + self._decay_atomic_number_change,
                                  self._atomic_mass + self._decay_atomic_mass_change,
                                  self._energy_state)

daughter_name(self) ==
    LET atomic_number == StoredProperty(self, "atomic_number")
        number_change == StoredProperty(self, "decay_atomic_number_change")
        atomic_mass == StoredProperty(self, "atomic_mass")
        mass_change == StoredProperty(self, "decay_atomic_mass_change")
    IN  IF ~atomic_number.ok THEN atomic_number
        ELSE IF ~number_change.ok THEN number_change
        ELSE IF ~atomic_mass.ok THEN atomic_mass
        ELSE IF ~mass_change.ok THEN mass_change
        ELSE isomer_name_from_nuclear_data(atomic_number.val + number_change.val,
                                           atomic_mass.val + mass_change.val, 0)

\* self.<attr>: a property of the class first, then the instance's __dict__
GetAttr(self, attr) ==
    IF attr \in StoredProperties THEN StoredProperty(self, attr)
    ELSE IF attr = "daughter_name" THEN daughter_name(self)
    ELSE InstanceAttr(self, attr)

IsomerDataFor ==
    <<"I", "s", "o", "m", "e", "r", " ", "d", "a", "t", "a", " ", "f", "o", "r", " ">>

\* "Isomer data for {}".format(self.isomer_name)
__str__(self) ==
    LET isomer_name == GetAttr(self, "isomer_name")
    IN  IF ~isomer_name.ok THEN isomer_name ELSE Ok(IsomerDataFor \o isomer_name.val)

(***************************************************************************)
(* Inputs of the loader: isomer names, filenames and decay-data files.     *)
(***************************************************************************)
LoadNames ==
    { <<"C", "o", "6", "0">>,
      <<"C", "o", "6", "0", "m", "1">>,
      <<"C", "o", "0", "6", "0">>,
      <<"U", "2", "3", "8">>,
      <<"H", "1">>,
      <<"X", "6", "0">>,
      <<"C", "o">>,
      <<"C", "o", "U+0666", "U+0660">>,
      <<"C", "o", "6", "_", "0", "m", "1">> }

LoadFilenames ==
    { <<"d", "e", "c", "-", "0", "2", "7", "_", "C", "o", "_", "0", "6", "0", "m", "1",
        ".", "e", "n", "d", "f">>,
      <<"d", "e", "c", "-", "0", "2", "8", "_", "N", "i", "_", "0", "6", "0",
        ".", "e", "n", "d", "f">>,
      <<"N", "i", "6", "0", ".", "e", "n", "d", "f">> }

KnownUnits == {<<"P", "S">>, <<"N", "S">>, <<"U", "S">>, <<"M", "S">>, <<"S">>,
               <<"M">>, <<"H">>, <<"D">>, <<"Y">>}

UnitInputs == KnownUnits \cup {<<"F", "O", "O">>}

Gaps == {<<" ">>, <<" ", " ">>, <<"\t">>}

\* "Parent half-life:" gap value rest
HalfLifeLine(gap, value, rest) == ParentHalfLife \o <<":">> \o gap \o value \o rest

\* values in the notations float() reads beyond plain decimals, and near them
ValueInputsNotation ==
    { <<"4", ".", "4", "6", "8", "E", "+", "9">>,
      <<"1", "e", "-", "4", "0", "0">>,
      <<"1", "e", "4", "0", "0">>,
      <<"-", "5", ".", "2">>,
      <<"-", "0">>,
      <<"1", "_", "0">>,
      <<"5", ".">>,
      <<"1", "e">>,
      <<"i", "n", "f">>,
      <<"N", "a", "N">>,
      <<"\f", "5", ".", "2">>,
      <<"U+0665">> }

\* value and unit each followed by one space, as in the 80-column ENDF records
HalfLifeLinesPadded ==
    {HalfLifeLine(<<" ">>, v, <<" ">> \o u \o <<" ", "3", "\n">>) :
        v \in {<<"5", ".", "2">>, <<"x">>}, u \in UnitInputs}
    \cup {HalfLifeLine(<<" ">>, v, <<" ", "Y", " ", "3", "\n">>) :
              v \in {STABLE, <<"0">>} \cup ValueInputsNotation}

RestInputs ==
    { <<"\n">>, <<>>, <<" ", "\n">>,
      <<" ", "Y", "\n">>, <<" ", "Y">>, <<" ", "F", "O", "O", "\n">>,
      <<" ", " ", "Y", " ", "3", "\n">>, <<"\t", "Y", " ", "3", "\n">> }

\* other layouts of the same tokens: several spaces, tabs, a token ending the line
HalfLifeLinesLayout ==
    {HalfLifeLine(g, v, r) : g \in Gaps, v \in {STABLE, <<"5", ".", "2">>}, r \in RestInputs}

HalfLifeLines == HalfLifeLinesPadded \cup HalfLifeLinesLayout

DecayModeLine(rest) == DecayMode \o <<":">> \o rest

DecayModeLines ==
    {DecayModeLine(<<" ">> \o c \o <<"\n">>) :
        c \in {<<"A">>, <<"B", "-">>, <<"E", "C">>, <<"Z", "Z">>}}
    \cup { DecayModeLine(<<" ", " ", "B", "-", " ", "1", "\n">>),
           DecayModeLine(<<"\t", "E", "C">>),
           DecayModeLine(<<"\f", "E", "C", "\n">>),
           DecayModeLine(<<" ", "A", "\f", "U+00A0", "\n">>),
           DecayModeLine(<<"\n">>) }

OtherLine == <<"C", "o", "m", "m", "e", "n", "t", "s", " ", "o", "n", " ", "e", "v", "a", "l",
               "\n">>

StableLine == HalfLifeLine(<<" ">>, STABLE, <<" ", " ", "\n">>)

YearsLine == HalfLifeLine(<<" ">>, <<"5", ".", "2">>, <<" ", "Y", " ", "3", "\n">>)

BetaLine == DecayModeLine(<<" ", "B", "-", "\n">>)

AlphaLine == DecayModeLine(<<" ", "A", "\n">>)

\* what readlines() can return: every line but the last ends with its only newline,
\* and a carriage return was read as a newline
IsReadlines(lines) ==
    \A i \in 1..Len(lines) :
        /\ Len(lines[i]) > 0
        /\ \A k \in 1..(Len(lines[i]) - 1) : lines[i][k] # "\n"
        /\ \A k \in 1..Len(lines[i]) : lines[i][k] # "\r"
        /\ i < Len(lines) => lines[i][Len(lines[i])] = "\n"

FileLines ==
    { l \in {<<h, d>> : h \in HalfLifeLines, d \in DecayModeLines}
            \cup {<<d, h>> : h \in HalfLifeLines, d \in DecayModeLines}
            \cup {<<h>> : h \in HalfLifeLines}
            \cup {<<d>> : d \in DecayModeLines}
            \cup { <<>>, <<OtherLine>>,
                   <<OtherLine, BetaLine, OtherLine, YearsLine>>,
                   <<StableLine, YearsLine, BetaLine>>,
                   <<YearsLine, StableLine, BetaLine>>,
                   <<YearsLine, AlphaLine, BetaLine>>,
                   <<YearsLine, BetaLine, AlphaLine>> } : IsReadlines(l) }

FileInputs == {NoFile} \cup {[exists |-> TRUE, lines |-> l] : l \in FileLines}

(***************************************************************************)
(* Loading a record and reading it.                                        *)
(***************************************************************************)
InitLoad == /\ nd_in = <<0, 0, 0>>
            /\ name_v = NotHeld
            /\ fname_v = NotHeld
            /\ call = NoCall
            /\ file_content \in FileInputs
            /\ obj = NoObject
            /\ raised = NoError
            /\ locals = NoLocals
            /\ out = NoOut

\* obj = IsomerData(isomer_name): the caller gets an instance only when __init__ returns
Construct(isomer_name) ==
    \E r \in {IsomerData__init__(isomer_name, file_content)} :
        /\ obj' = IF r.raised = NoError THEN [r.self EXCEPT !.bound = TRUE] ELSE NoObject
        /\ raised' = r.raised
        /\ locals' = r.locals
        /\ out' = NoOut
        /\ UNCHANGED <<codecVars, file_content>>

\* A caller that has not constructed anything yet.  Instances share no state, so a
\* second construction is a behaviour of its own, starting from the initial state.
Fresh == ~obj.bound /\ raised = NoError

Load == /\ Fresh
        /\ \E isomer_name \in LoadNames : Construct(isomer_name)

\* IsomerData.instance_from_filename(filename)
InstanceFromFilename ==
    /\ Fresh
    /\ \E filename \in LoadFilenames :
        \E isomer_name \in {isomer_name_from_filename(filename)} :
            IF isomer_name.ok
            THEN Construct(isomer_name.val)
            ELSE /\ obj' = NoObject
                 /\ raised' = ErrorOf(isomer_name)
                 /\ locals' = NoLocals
                 /\ out' = NoOut
                 /\ UNCHANGED <<codecVars, file_content>>

ReadProperty ==
    /\ obj.bound
    /\ \E p \in StoredProperties : out' = [op |-> p, ret |-> GetAttr(obj, p)]
    /\ UNCHANGED <<codecVars, file_content, obj, raised, locals>>

ReadDaughterName ==
    /\ obj.bound
    /\ out' = [op |-> "daughter_name", ret |-> GetAttr(obj, "daughter_name")]
    /\ UNCHANGED <<codecVars, file_content, obj, raised, locals>>

Render ==
    /\ obj.bound
    /\ out' = [op |-> "__str__", ret |-> __str__(obj)]
    /\ UNCHANGED <<codecVars, file_content, obj, raised, locals>>

NextLoad == Load \/ InstanceFromFilename \/ ReadProperty \/ ReadDaughterName \/ Render

SpecLoad == InitLoad /\ [][NextLoad]_vars

(***************************************************************************)
(* Properties of the codec.                                                *)
(***************************************************************************)
\* a triple in the supported range: a known element, fields of at most FieldWidth digits
ValidTriple(t) == /\ t[1] \in KnownAtomicNumbers
                  /\ 1 <= t[1] /\ t[1] <= MaxField
                  /\ 1 <= t[2] /\ t[2] <= MaxField
                  /\ t[3] >= 0

SymbolOf(z) == (CHOOSE e \in ElementTable : e.z = z).sym

\* s is written with the ten digits str() writes
InDigits(s) == \A i \in 1..Len(s) : \E k \in 1..Len(Digits) : Digits[k] = s[i]

\* C1: decoding the isomer name encoded from a valid triple returns that triple,
\* also for a symbol containing "m" and for energy state 0 (no suffix written).
C1_NameRoundTrip ==
    (ValidTriple(nd_in) /\ call.op = "nuclear_data_from_name")
        => (call.ret.ok /\ call.ret.val = nd_in)

\* Samarium ("Sm") in its ground state went through the name and came back.
C1_Witness ==
    /\ call.op = "nuclear_data_from_name"
    /\ call.arg = <<"S", "m", "1", "0", "0">>
    /\ nd_in = <<62, 100, 0>>
    /\ call.ret.val = nd_in

\* f is dec-<NNN>_<Sym>_<MMM>[m<K>].endf for the triple t
FilenameShape(f, t) ==
    LET sym == SymbolOf(t[1])
        n == Len(sym)
        number == SubSeq(f, 5, 7)
        mass == SubSeq(f, 10 + n, 12 + n)
        rest == SubSeq(f, 13 + n, Len(f))
    IN  /\ SubSeq(f, 1, 4) = <<"d", "e", "c", "-">>
        /\ Len(number) = FieldWidth /\ InDigits(number) /\ DecValue(number) = t[1]
        /\ f[8] = "_" /\ SubSeq(f, 9, 8 + n) = sym /\ f[9 + n] = "_"
        /\ Len(mass) = FieldWidth /\ InDigits(mass) /\ DecValue(mass) = t[2]
        /\ (t[3] = 0 => rest = <<".", "e", "n", "d", "f">>)
        /\ (t[3] > 0 => rest = <<"m">> \o Str(t[3]) \o <<".", "e", "n", "d", "f">>)

\* C2: decoding the filename encoded from a valid triple returns that triple, and the
\* filename has 3-character zero-padded number and mass fields and an m<K> suffix
\* exactly when the energy state is positive.
C2_FilenameRoundTrip ==
    ValidTriple(nd_in) =>
        /\ call.op = "nuclear_data_from_filename" => (call.ret.ok /\ call.ret.val = nd_in)
        /\ call.op = "filename_from_nuclear_data" =>
               (call.ret.ok /\ FilenameShape(call.ret.val, nd_in))

\* Carbon-7 in energy state 2: both fields are padded and the suffix is written.
C2_Witness ==
    /\ call.op = "nuclear_data_from_filename"
    /\ call.arg = <<"d", "e", "c", "-", "0", "0", "6", "_", "C", "_", "0", "0", "7", "m", "2",
                    ".", "e", "n", "d", "f">>
    /\ nd_in = <<6, 7, 2>>
    /\ call.ret.val = nd_in

\* the first maximal prefix of s without a digit
RECURSIVE NonDigitPrefix(_)
NonDigitPrefix(s) ==
    IF Len(s) = 0 \/ IsNumeric(s[1]) THEN <<>> ELSE <<s[1]>> \o NonDigitPrefix(Tail(s))

\* C10: a name whose first maximal non-digit prefix is no recognized element symbol
\* makes nuclear_data_from_name fail with the lookup's error, also when the name has
\* no digit at all and when it begins with a digit.
C10_UnknownSymbolIsLookupError ==
    (/\ call.op = "nuclear_data_from_name"
     /\ ~get_atomic_number_from_element_symbol(NonDigitPrefix(call.arg)).ok)
        => (~call.ret.ok /\ call.ret.exc = "LookupError")

(***************************************************************************)
(* Properties of the loader.                                               *)
(***************************************************************************)
\* the constructor got as far as reading the file: the name decodes and the file exists
FileRead == /\ "isomer_name" \in locals.assigned
            /\ filename_from_isomer_name(locals.isomer_name).ok
            /\ file_content.exists

HalfLifeAt == FirstLine(file_content.lines, ParentHalfLife)

\* the whitespace-separated tokens of the first parent half-life line
HalfLifeTokens == SplitWS(file_content.lines[HalfLifeAt])

DecayModeAt == FirstLine(file_content.lines, DecayMode)

\* the whitespace-separated tokens of the first decay mode line
DecayModeTokens == SplitWS(file_content.lines[DecayModeAt])

IsStableRecord == /\ obj.bound
                  /\ raised = NoError
                  /\ {"_stable", "_decay_rate", "_decay_atomic_number_change",
                      "_decay_atomic_mass_change"} \subseteq obj.dict
                  /\ obj._stable
                  /\ obj._decay_rate = ZeroRate
                  /\ obj._decay_atomic_number_change = 0
                  /\ obj._decay_atomic_mass_change = 0

\* C3: a file whose first parent half-life line has STABLE as its value token loads
\* as a stable record with rate 0.0 and both changes 0, whatever else the file holds.
C3_StableLoads ==
    (/\ FileRead
     /\ HalfLifeAt # 0
     /\ Len(HalfLifeTokens) >= 3
     /\ HalfLifeTokens[3] = STABLE)
        => IsStableRecord

\* C4 as stated: a stable record's daughter_name is the name it was constructed with,
\* metastable names included.
C4_StableDaughterIsOwnName ==
    (obj.bound /\ obj._stable /\ out.op = "daughter_name")
        => (out.ret.ok /\ out.ret.val = obj._isomer_name)

\* a name written as symbol and mass only, the mass without leading zeros
GroundStateSpelling(isomer_name) ==
    LET mass == From(isomer_name, Len(NonDigitPrefix(isomer_name)))
    IN  /\ Len(mass) > 0
        /\ InDigits(mass)
        /\ (Len(mass) = 1 \/ mass[1] # "0")

\* C4 amended: a stable record's daughter_name is the ground-state name of the same
\* nuclide (its symbol and its mass, no suffix); it is the name the record was
\* constructed with exactly when that name is spelled as a ground-state name.
C4_StableDaughterIsGroundState ==
    (obj.bound /\ obj._stable /\ out.op = "daughter_name")
        => /\ out.ret.ok
           /\ out.ret.val = NonDigitPrefix(obj._isomer_name) \o Str(obj._atomic_mass)
           /\ (out.ret.val = obj._isomer_name) <=> GroundStateSpelling(obj._isomer_name)

\* The stable record constructed as "Co60m1" names "Co60" as its daughter.
C4_Witness ==
    /\ obj.bound /\ obj._stable
    /\ obj._isomer_name = <<"C", "o", "6", "0", "m", "1">>
    /\ out.op = "daughter_name"
    /\ out.ret.val = <<"C", "o", "6", "0">>

Changes == <<obj._decay_atomic_number_change, obj._decay_atomic_mass_change>>

NonStableRecord == obj.bound /\ raised = NoError /\ ~obj._stable

ValueError(text, arg) == [exc |-> "ValueError", text |-> text, arg |-> arg]

\* the half-life value is one the five checks cover: STABLE or a positive number
CoveredValue(word) ==
    \/ word = STABLE
    \/ /\ Float(word).ok
       /\ Float(word).val.kind = "finite"
       /\ ~Float(word).val.neg

\* C5: in a non-stable load with a recognized unit (the first parent half-life line
\* has a positive number as its third whitespace-separated token and a unit of the
\* table as its fourth) the third whitespace-separated token of the first decay mode
\* line decides the changes: A gives (-2, -4), B- gives (+1, 0), EC gives (-1, 0), any
\* other code fails naming the code; no other pair of changes is ever stored in a
\* non-stable record.
C5_DecayModeDecides ==
    /\ (/\ FileRead
        /\ HalfLifeAt # 0
        /\ Len(HalfLifeTokens) >= 4
        /\ HalfLifeTokens[3] # STABLE
        /\ CoveredValue(HalfLifeTokens[3])
        /\ HalfLifeTokens[4] \in KnownUnits
        /\ DecayModeAt # 0
        /\ Len(DecayModeTokens) >= 3) =>
           LET code == DecayModeTokens[3]
           IN  CASE code = <<"A">> -> NonStableRecord /\ Changes = <<-2, -4>>
                 [] code = <<"B", "-">> -> NonStableRecord /\ Changes = <<1, 0>>
                 [] code = <<"E", "C">> -> NonStableRecord /\ Changes = <<-1, 0>>
                 [] OTHER -> /\ ~obj.bound
                             /\ raised = ValueError("Unknown decay mode", code)
    /\ NonStableRecord => Changes \in {<<-2, -4>>, <<1, 0>>, <<-1, 0>>}

StoredAttributes == {"_" \o p : p \in StoredProperties}

\* C6: a load attempt ends with a record on which all seven attributes are defined, or
\* with an error and no record; no record with an attribute unset is ever observable.
C6_RecordOrError ==
    /\ obj.bound => (raised = NoError /\ StoredAttributes \subseteq obj.dict)
    /\ raised # NoError => obj = NoObject
    /\ "isomer_name" \in locals.assigned => (obj.bound \/ raised # NoError)
    /\ out.op \in StoredProperties => out.ret.ok

\* A change was read from a record loaded on the stable path.
C6_Witness ==
    /\ obj.bound /\ obj._stable
    /\ out.op = "decay_atomic_mass_change"
    /\ out.ret.ok /\ out.ret.val = 0

\* C7: the string rendering of a loaded record never fails and identifies the isomer
\* by the name it was loaded with.
C7_RenderingNamesIsomer ==
    (obj.bound /\ out.op = "__str__")
        => (out.ret.ok /\ out.ret.val = IsomerDataFor \o obj._isomer_name)

\* C8: the value and unit the loader takes are the third and fourth whitespace-
\* separated tokens of the first parent half-life line, and a line whose third token
\* is STABLE with no fourth token is accepted as stable.
C8_WhitespaceTokens ==
    (FileRead /\ HalfLifeAt # 0 /\ Len(HalfLifeTokens) >= 3) =>
        /\ "decay_rate_word" \in locals.assigned
        /\ locals.decay_rate_word = HalfLifeTokens[3]
        /\ Len(HalfLifeTokens) >= 4 =>
               /\ "decay_rate_unit" \in locals.assigned
               /\ locals.decay_rate_unit = HalfLifeTokens[4]
        /\ (HalfLifeTokens[3] = STABLE /\ Len(HalfLifeTokens) = 3) =>
               (obj.bound /\ obj._stable)

\* C9: the checks run in the order half-life line, STABLE, unit, decay mode line,
\* decay mode code, and the error reported is that of the earliest failing check.
C9_EarliestCheckFails ==
    FileRead =>
        IF HalfLifeAt = 0
        THEN raised = ValueError("No decay rate in this file", <<>>)
             /\ locals.assigned = {"isomer_name"}
        ELSE (Len(HalfLifeTokens) >= 4 /\ CoveredValue(HalfLifeTokens[3])) =>
                 IF HalfLifeTokens[3] = STABLE THEN obj.bound /\ raised = NoError
                 ELSE IF HalfLifeTokens[4] \notin KnownUnits
                 THEN raised = ValueError("Unknown Half-Life Unit", HalfLifeTokens[4])
                 ELSE IF DecayModeAt = 0
                 THEN raised = ValueError("No decay mode in this file", <<>>)
                 ELSE Len(DecayModeTokens) >= 3 =>
                          IF DecayModeChange(DecayModeTokens[3]).known
                          THEN obj.bound /\ raised = NoError
                          ELSE raised = ValueError("Unknown decay mode", DecayModeTokens[3])

====
